---- MODULE Spec2Model ----
(***************************************************************************)
(* A model of two parts of couchbase-lite-core:                            *)
(*   - the C4Database handle of src/C/c4Database.cc (thread-safe build):   *)
(*     nested transactions, the two mutexes, the DataFile operations;      *)
(*   - the streaming codec of src/LiteCore/Support/Codec.cc.               *)
(* Spec is the database handle driven by concurrent threads.               *)
(***************************************************************************)
EXTENDS Integers, Sequences, FiniteSets, TLC

\* ---------------------------------------------------------------- bounds
\* Total number of API calls the threads issue in one behaviour.
MaxCalls == 4
\* Number of holders (documents, enumerators) that retained the handle beyond
\* the reference c4db_open returns.
MaxRefs == 1

Threads == {1, 2}
NoThread == 0
NULL == "NULL"
\* A key with no record.
Absent == <<>>
Keys == {"a"}
\* c4Database::_transaction == NULL
NoTransaction == [live |-> FALSE, aborted |-> FALSE, work |-> [k \in Keys |-> Absent]]
\* (meta, body) pairs a caller passes to c4raw_put; both null means delete.
PutValues == {<<NULL, NULL>>, <<"m", "1">>}

VARIABLES
    pc,                 \* pc[t]: where thread t stands inside its current API call
    call,               \* call[t]: the API function thread t is executing
    arg,                \* arg[t]: its arguments / locals (commit, key, meta, body)
    ret,                \* what the call that finished last returned, and to whom
                        \* (forgotten when the next call is made)
    transactionMutex,   \* c4Database::_transactionMutex (recursive): owner, count
    mutex,              \* c4Database::_mutex, taken by WITH_LOCK: its owner
    transactionLevel,   \* c4Database::_transactionLevel
    transaction,        \* c4Database::_transaction: the Transaction object, or none
    nLiveTx,            \* number of Transaction objects that exist
    store,              \* committed contents of the DataFile's KeyStore
    dfOpen,             \* the DataFile is open (not closed, not deleted)
    dfDeleted,          \* deleteDataFile() was performed
    dfOps,              \* the DataFile operations performed so far
    refCount,           \* RefCounted count of the handle
    crashed,            \* the process died (null Transaction dereferenced)
    nCalls,             \* API calls issued so far
    nOpen,              \* nOpen[t]: the beginTransaction calls of thread t that
                        \* returned, minus its endTransaction calls that returned true
    scope,              \* history of the open outermost begin..end pair
    last,               \* how the outermost end just performed ended its Transaction
                        \* (forgotten when the next call is made)
    plain,              \* the bytes a sender has to transmit
    sent,               \* how many of them its Deflater has consumed
    deflater,           \* the Deflater: its z_stream and its _checksum
    wire,               \* every byte the Deflater has produced, in order
    recv,               \* how many of them the Inflater has consumed
    inflater,           \* the Inflater: its z_stream and its _checksum
    outPlain,           \* every byte the Inflater has produced, in order
    lastWrite,          \* the write call performed last, and what it did
    hist,               \* over the write calls so far: how many of each codec,
                        \* whether one was Raw, whether one threw, and whether
                        \* the Deflater's last one was a sync flush that returned
                        \* with all of its input consumed
    checksumIO,         \* the checksum bytes the sender's writeChecksum emitted
                        \* last, and the writeChecksum or readAndVerifyChecksum
                        \* call performed last
    bundle,             \* the bundle path on disk: whether the directory
                        \* exists, and the database files in it
    flatFile,           \* whether the file of a non-bundled database exists
    lastOpen,           \* the c4db_open call performed last: the config passed,
                        \* what it returned, and what the handle was built with
    nOpens              \* c4db_open calls so far

handleVars == <<pc, call, arg, ret, transactionMutex, mutex, transactionLevel,
                transaction, nLiveTx, store, dfOpen, dfDeleted, dfOps, refCount,
                crashed, nCalls, nOpen, scope, last>>

codecVars == <<plain, sent, deflater, wire, recv, inflater, outPlain, lastWrite, hist,
               checksumIO>>

openVars == <<bundle, flatFile, lastOpen, nOpens>>

vars == <<handleVars, codecVars, openVars>>

dbVars == <<transactionMutex, mutex, transactionLevel, transaction, nLiveTx,
            store, dfOpen, dfDeleted, dfOps, refCount, crashed>>

\* ------------------------------------------------------- data definitions
EmptyStore == [k \in Keys |-> Absent]
NoArg == [commit |-> FALSE, key |-> "a", meta |-> NULL, body |-> NULL, err |-> "None"]
NoRet == [thread |-> NoThread, op |-> "none", ok |-> TRUE, err |-> "None"]
NoScope == [abortSeen |-> FALSE, failSeen |-> FALSE, snap |-> EmptyStore, log |-> <<>>]
NoLast == [ended |-> FALSE, outcome |-> "none", commit |-> FALSE, abortSeen |-> FALSE,
           failSeen |-> FALSE, nWrites |-> 0, expect |-> EmptyStore]

\* KeyStore::set / KeyStore::del on a store's contents.
KeyStoreSet(s, key, meta, body) == [s EXCEPT ![key] = <<meta, body>>]
KeyStoreDel(s, key) == [s EXCEPT ![key] = Absent]

\* Transaction::Transaction(db): a write scope working on a copy of the file.
NewTransaction == [live |-> TRUE, aborted |-> FALSE, work |-> store]

\* Transaction::abort(): mark the Transaction for rollback.
TransactionAbort(t) == [t EXCEPT !.aborted = TRUE]

\* ~Transaction: what the file holds once the Transaction is deleted
\* (it commits unless it was aborted).
TransactionDelete(t) == IF t.aborted THEN store ELSE t.work

\* endTransaction: if (!commit) t->abort();
AbortNever(t, commit) == t
AbortUnlessCommit(t, commit) == IF ~commit THEN TransactionAbort(t) ELSE t

\* std::recursive_mutex::lock() can return for thread t.
TransactionMutexFreeNever(t) == TRUE
TransactionMutexFree(t) == transactionMutex.owner \in {NoThread, t}

\* WITH_LOCK(db): the handle's mutex can be taken.
MutexFree == mutex = NoThread

\* c4Database::inTransaction()
inTransactionWrong == transactionLevel > 1
inTransaction == transactionLevel > 0

\* c4Database::mustNotBeInTransaction()
mustNotBeInTransactionAlways == TRUE
mustNotBeInTransaction == ~inTransaction

\* c4raw_get: the record a reader finds under key (NotFound when absent).
c4raw_get(key) ==
    LET view == IF transaction.live THEN transaction.work ELSE store
    IN  IF ~dfOpen THEN [ok |-> FALSE, err |-> "NotOpen", rec |-> Absent]
        ELSE IF view[key] = Absent
             THEN [ok |-> FALSE, err |-> "NotFound", rec |-> Absent]
             ELSE [ok |-> TRUE, err |-> "None", rec |-> view[key]]

Unlocked(m, n) ==
    LET c == m.count - n
    IN  [owner |-> IF c <= 0 THEN NoThread ELSE m.owner, count |-> c]
Locked(m, t) == [owner |-> t, count |-> m.count + 1]

Running == ~crashed /\ refCount > 0


\* The writes of a log applied, in order, to a store's contents.
RECURSIVE ApplyLog(_, _)
ApplyLog(s, log) ==
    IF log = <<>> THEN s
    ELSE LET w == Head(log)
         IN  ApplyLog(IF w[2] # NULL \/ w[3] # NULL
                      THEN KeyStoreSet(s, w[1], w[2], w[3])
                      ELSE KeyStoreDel(s, w[1]),
                      Tail(log))

\* ======================================================================
\* The streaming codec of src/LiteCore/Support/Codec.cc.
\* ======================================================================
\* ------------------------------------------------------- codec bounds
\* Deflater::write calls and Inflater::write calls in one behaviour.
MaxWrites == 2
MaxReads == 1
\* Lengths of the plaintexts a sender transmits.
ShortLen == 8
LongLen == 120

\* Plaintext byte values.
Bytes == {1, 2}
\* Sizes of the output buffers a caller passes to write.
OutputSizes == {1, 6, 8, 12, 113, 300}
\* Codec::Mode values a caller passes ("Finish" stands for the zlib modes that
\* Deflater::write does not accept).
Modes == {"Raw", "NoFlush", "SyncFlush", "Finish"}

Min(a, b) == IF a < b THEN a ELSE b
Take(s, n) == SubSeq(s, 1, n)
Drop(s, n) == SubSeq(s, n + 1, Len(s))

\* size_t arithmetic wraps. (The modulus stands for 2^64, which is beyond the
\* model checker's integers; every size of the model is far below both.)
SizeModulus == 1073741824
SizeT(x) == x % SizeModulus
SIZE_MAX == SizeModulus - 1

\* crc32(crc, data): an order-sensitive fold of the bytes into the checksum,
\* with crc32(crc32(c, a), b) = crc32(c, a \o b) and crc32(0, <<>>) = 0.
CrcModulus == 65521
RECURSIVE crc32(_, _)
crc32(crc, data) ==
    IF data = <<>> THEN crc
    ELSE IF Len(data) = 1 THEN (crc * 31 + data[1]) % CrcModulus
    ELSE LET half == Len(data) \div 2
             first == crc32(crc, Take(data, half))
         IN  IF first \in 0..(CrcModulus - 1)
             THEN crc32(first, Drop(data, half))
             ELSE first

\* ------------------------------------------------------ the zlib engine
\* The bytes of a compressed stream: BlockHeader starts a block and
\* EndOfBlock ends it; inside it Literal(b) is the byte b, and MatchLength(k)
\* followed by Distance1 repeats the byte before them k times; SyncByte(i) is
\* byte i of the empty stored block that ends a sync flush. (None of them is
\* a plaintext byte.)
MIN_MATCH == 3
MAX_MATCH == 258
BlockHeader == 20
EndOfBlock == 21
Distance1 == 22
LiteralBase == 10
SyncBase == 30
LengthBase == 1000
Literal(b) == LiteralBase + b
MatchLength(k) == LengthBase + k
SyncByte(i) == SyncBase + i

\* The symbols for `run` repeats of the byte b: a match if they are MIN_MATCH
\* or more, literals if fewer.
RunSymbols(b, run) ==
    IF run >= MIN_MATCH THEN <<MatchLength(run), Distance1>>
    ELSE [i \in 1..run |-> Literal(b)]

\* The matcher reads the byte b: it counts a byte that repeats the one before
\* it (a match is at most MAX_MATCH long), and emits any other byte as a
\* literal, after the symbols of the repeats counted so far.
MatchByte(m, b) ==
    IF b = m.last /\ m.run + 1 = MAX_MATCH
    THEN [m EXCEPT !.run = 0, !.out = @ \o RunSymbols(b, MAX_MATCH)]
    ELSE IF b = m.last
    THEN [m EXCEPT !.run = @ + 1]
    ELSE [last |-> b, run |-> 0,
          out |-> m.out \o RunSymbols(m.last, m.run) \o <<Literal(b)>>]

\* The matcher reads the bytes s in order.
RECURSIVE MatchBytes(_, _)
MatchBytes(m, s) ==
    IF s = <<>> THEN m
    ELSE IF Len(s) = 1 THEN MatchByte(m, s[1])
    ELSE LET half == Len(s) \div 2
             first == MatchBytes(m, Take(s, half))
         IN  IF first.run >= 0 THEN MatchBytes(first, Drop(s, half)) ELSE first

\* The symbols that encode s, when prev is the byte before s in the window
\* (0: none).
Symbols(s, prev) ==
    LET m == MatchBytes([last |-> prev, run |-> 0, out |-> <<>>], s)
    IN  m.out \o RunSymbols(m.last, m.run)

\* _tr_flush_block: one block holding the buffered bytes.
EncodeBlock(buf, prev) == <<BlockHeader>> \o Symbols(buf, prev) \o <<EndOfBlock>>
\* _tr_align: the empty block a partial flush appends.
PartialMarker == <<BlockHeader, EndOfBlock>>
\* _tr_stored_block(s, NULL, 0, 0): the empty stored block of a sync flush.
SyncMarker == [i \in 1..5 |-> SyncByte(i)]

\* RANK(flush) of deflate.c; "Reset" is last_flush = -1.
Rank(flush) ==
    CASE flush = "Reset" -> -2
      [] flush = "NoFlush" -> 0
      [] flush = "PartialFlush" -> 2
      [] flush = "SyncFlush" -> 4
      [] OTHER -> 8

\* deflateInit2: nothing buffered, nothing pending.
NewDeflateStream == [buf |-> <<>>, prev |-> 0, pending |-> <<>>, last_flush |-> "NoFlush"]

\* deflateBound(strm, sourceLen) for a stream that is not set up with zlib's
\* default memLevel (kZlibDeflateMemLevel is 9): the conservative bound.
deflateBound(sourceLen) ==
    sourceLen + ((sourceLen + 7) \div 8) + ((sourceLen + 63) \div 64) + 5

\* deflatePending: the bytes produced but not yet copied to an output.
deflatePending(z) == Len(z.pending)

\* deflate() once pending output is out of the way: take the input into the
\* window; with a flush, emit the buffered bytes as a block and, if the output
\* is not full after it, the flush marker.
DeflateBlock(z, in, out1, left1, flush) ==
    LET buf2 == z.buf \o in
        block == IF buf2 = <<>> THEN <<>> ELSE EncodeBlock(buf2, z.prev)
        prev2 == IF buf2 = <<>> THEN z.prev ELSE buf2[Len(buf2)]
        n2 == Min(Len(block), left1)
        left2 == left1 - n2
        marker == IF flush = "PartialFlush" THEN PartialMarker ELSE SyncMarker
        n3 == Min(Len(marker), left2)
    IN  IF flush = "NoFlush"
        THEN [z |-> [z EXCEPT !.buf = buf2], consumed |-> Len(in), out |-> out1,
              result |-> "Z_OK"]
        ELSE IF block # <<>> /\ left2 = 0
        THEN [z |-> [buf |-> <<>>, prev |-> prev2, pending |-> Drop(block, n2),
                     last_flush |-> "Reset"],
              consumed |-> Len(in), out |-> out1 \o Take(block, n2), result |-> "Z_OK"]
        ELSE [z |-> [buf |-> <<>>, prev |-> prev2, pending |-> Drop(marker, n3),
                     last_flush |-> IF left2 - n3 = 0 THEN "Reset" ELSE flush],
              consumed |-> Len(in), out |-> out1 \o block \o Take(marker, n3),
              result |-> "Z_OK"]

\* deflate(strm, flush) with avail_in = Len(in) and avail_out = availOut > 0.
deflate(z, in, availOut, flush) ==
    LET n1 == Min(Len(z.pending), availOut)
        out1 == Take(z.pending, n1)
        z1 == [z EXCEPT !.pending = Drop(@, n1), !.last_flush = flush]
    IN  IF z.pending # <<>> /\ availOut - n1 = 0
        THEN [z |-> [z1 EXCEPT !.last_flush = "Reset"], consumed |-> 0, out |-> out1,
              result |-> "Z_OK"]
        ELSE IF z.pending = <<>> /\ in = <<>> /\ Rank(flush) <= Rank(z.last_flush)
        THEN [z |-> z1, consumed |-> 0, out |-> <<>>, result |-> "Z_BUF_ERROR"]
        ELSE DeflateBlock(z1, in, out1, availOut - n1, flush)

\* inflateInit2: at the top of the stream, no history.
NewInflateStream == [st |-> "top", idx |-> 0, copyLeft |-> 0, last |-> 0]

\* The state of the decoder after it has read the compressed byte tok.
InflateToken(z, tok) ==
    CASE z.st = "top" /\ tok = BlockHeader -> [z EXCEPT !.st = "blk"]
      [] z.st = "top" /\ tok = SyncByte(1) -> [z EXCEPT !.st = "sync", !.idx = 1]
      [] z.st = "sync" /\ tok = SyncByte(z.idx + 1) ->
            IF z.idx + 1 = Len(SyncMarker) THEN [z EXCEPT !.st = "top", !.idx = 0]
            ELSE [z EXCEPT !.idx = @ + 1]
      [] z.st = "blk" /\ tok - LiteralBase \in Bytes ->
            [z EXCEPT !.st = "copy", !.copyLeft = 1, !.last = tok - LiteralBase]
      [] z.st = "blk" /\ tok - LengthBase \in MIN_MATCH..MAX_MATCH ->
            [z EXCEPT !.st = "dst", !.copyLeft = tok - LengthBase]
      [] z.st = "blk" /\ tok = EndOfBlock -> [z EXCEPT !.st = "top"]
      [] z.st = "dst" /\ tok = Distance1 /\ z.last # 0 -> [z EXCEPT !.st = "copy"]
      [] OTHER -> [z EXCEPT !.st = "bad"]

\* The decoder copies the bytes it has decoded while the output has room.
InflateCopy(r) ==
    LET n == Min(r.z.copyLeft, r.left)
    IN  IF r.z.st # "copy" THEN r
        ELSE [r EXCEPT !.z.copyLeft = @ - n,
                       !.z.st = IF r.z.copyLeft = n THEN "blk" ELSE "copy",
                       !.out = @ \o [i \in 1..n |-> r.z.last],
                       !.left = @ - n]

\* The decoder goes through the compressed bytes in: it stops for good at a
\* byte that cannot follow, and for this call when a decoded byte finds the
\* output full.
RECURSIVE InflateLoop(_, _)
InflateLoop(r, in) ==
    IF in = <<>> THEN r
    ELSE IF Len(in) = 1
    THEN LET c == InflateCopy(r)
         IN  IF c.z.st \in {"copy", "bad"} THEN c
             ELSE [c EXCEPT !.z = InflateToken(@, in[1]), !.consumed = @ + 1]
    ELSE LET half == Len(in) \div 2
             first == InflateLoop(r, Take(in, half))
         IN  IF first.z.st = "bad" THEN first
             ELSE InflateLoop(first, Drop(in, half))

\* inflate(strm, flush) with avail_in = Len(in) and avail_out = availOut > 0;
\* Z_BUF_ERROR when no progress was possible.
inflate(z, in, availOut, flush) ==
    LET r == InflateCopy(InflateLoop([z |-> z, out |-> <<>>, left |-> availOut,
                                      consumed |-> 0], in))
    IN  [z |-> r.z, consumed |-> r.consumed, out |-> r.out,
         result |-> IF r.z.st = "bad" THEN "Z_DATA_ERROR"
                    ELSE IF r.consumed = 0 /\ r.out = <<>> THEN "Z_BUF_ERROR"
                    ELSE "Z_OK"]

\* ------------------------------------------------------------ Codec.cc
kHeadroomForFlush == 12
kStopAtOutputSize == 100

\* Codec::Codec(): the checksum starts as crc32(0, nullptr, 0).
NewChecksum == crc32(0, <<>>)

\* Codec::addToChecksum
addToChecksumTwice(checksum, data) == crc32(crc32(checksum, data), data)
addToChecksum(checksum, data) == crc32(checksum, data)

\* What a write has done so far: the stream, the input left, the room left in
\* the output, the bytes written to it, whether an exception is in flight, and
\* one record per engine call.
WriteState(z, input, outputSize) ==
    [z |-> z, input |-> input, outputSize |-> outputSize, out |-> <<>>,
     thrown |-> "None", steps |-> <<>>]

\* ZlibCodec::check
check(result) == IF result \notin {"Z_OK", "Z_BUF_ERROR"} THEN "CorruptData" ELSE "None"

\* ZlibCodec::_flate: ::deflate in a Deflater, ::inflate in an Inflater.
_flate(operation, z, in, availOut, mode) ==
    IF operation = "deflate" THEN deflate(z, in, availOut, mode)
    ELSE inflate(z, in, availOut, mode)

\* The end of ZlibCodec::_write, r being what _flate returned: check(result),
\* then the two slices move to the engine's next_in and next_out.
_writeAdvance(w, step, r) ==
    [z |-> r.z,
     input |-> Drop(w.input, r.consumed),
     outputSize |-> w.outputSize - Len(r.out),
     out |-> w.out \o r.out,
     thrown |-> check(r.result),
     steps |-> Append(w.steps,
                      step @@ [consumed |-> r.consumed, produced |-> Len(r.out),
                               result |-> r.result])]

\* ZlibCodec::_write. Assert(outSize > 0) throws before the engine is called.
_write(operation, w, mode, maxInput) ==
    IF w.thrown # "None" THEN w
    ELSE LET inSize == Min(Len(w.input), maxInput)
             outSize == w.outputSize
             step == [mode |-> mode, maxInput |-> maxInput, inSize |-> inSize,
                      outSize |-> outSize]
         IN  IF ~(outSize > 0)
             THEN [w EXCEPT !.thrown = "AssertionFailed",
                            !.steps = Append(@, step @@ [consumed |-> 0, produced |-> 0,
                                                         result |-> "none"])]
             ELSE _writeAdvance(w, step,
                                _flate(operation, w.z, Take(w.input, inSize),
                                       outSize, mode))

\* sizeof(uint32_t), the size of a checksum on the wire.
kChecksumSize == 4
ByteModulus == 256

\* endian::enc32, as the bytes the value occupies in memory: most significant
\* byte first.
enc32(v) == [i \in 1..kChecksumSize |-> (v \div (ByteModulus ^ (kChecksumSize - i))) % ByteModulus]

\* endian::dec32 of the 4 bytes b read from memory.
dec32Swapped(b) == b[3] + ByteModulus * (b[4] + ByteModulus * (b[2] + ByteModulus * b[1]))
dec32(b) == b[4] + ByteModulus * (b[3] + ByteModulus * (b[2] + ByteModulus * b[1]))

\* Codec::writeChecksum: Assert(output.writeFrom(...)) throws when the output
\* has no room for the 4 bytes, and then nothing is written.
writeChecksum(codec, outputSize) ==
    IF outputSize < kChecksumSize
    THEN [codec |-> codec, out |-> <<>>, thrown |-> "AssertionFailed"]
    ELSE [codec |-> codec, out |-> enc32(codec.checksum), thrown |-> "None"]

\* Codec::readAndVerifyChecksum
readAndVerifyChecksum(codec, input) ==
    IF Len(input) < kChecksumSize
    THEN [codec |-> codec, consumed |-> 0, thrown |-> "CorruptData",
          message |-> "BLIP message ends before checksum"]
    ELSE IF dec32(Take(input, kChecksumSize)) # codec.checksum
    THEN [codec |-> codec, consumed |-> kChecksumSize, thrown |-> "CorruptData",
          message |-> "BLIP message invalid checksum"]
    ELSE [codec |-> codec, consumed |-> kChecksumSize, thrown |-> "None",
          message |-> ""]

\* Codec::_writeRaw: copy min(|input|, |output|) bytes, fold them into the
\* checksum.
_writeRaw(codec, input, outputSize) ==
    LET count == Min(Len(input), outputSize)
    IN  IF ~(outputSize > 0)
        THEN [codec |-> codec, consumed |-> 0, out |-> <<>>,
              thrown |-> "AssertionFailed", steps |-> <<>>]
        ELSE [codec |-> [codec EXCEPT
                           !.checksum = addToChecksum(@, Take(input, count))],
              consumed |-> count,
              out |-> Take(input, count),
              thrown |-> "None", steps |-> <<>>]

\* The while loop of Deflater::_writeAndFlush; curMode is its local.
RECURSIVE WriteLoop(_, _)

\* The end of the loop body, w2 being the state after its _write: leave the
\* loop if the output has shrunk to kStopAtOutputSize, else test the loop's
\* condition again.
WriteLoopBreak(w2, curMode) ==
    IF w2.thrown # "None" \/ w2.outputSize <= kStopAtOutputSize
    THEN [w |-> w2, curMode |-> curMode]
    ELSE WriteLoop(w2, curMode)

WriteLoop(w, curMode) ==
    IF ~(Len(w.input) > 0)
    THEN [w |-> w, curMode |-> curMode]
    ELSE LET fits == w.outputSize >= deflateBound(Len(w.input))
             mode2 == IF fits THEN "SyncFlush" ELSE curMode
             maxInput == IF fits THEN SIZE_MAX
                         ELSE SizeT(w.outputSize - kHeadroomForFlush)
         IN  WriteLoopBreak(_write("deflate", w, mode2, maxInput), mode2)

\* The end of Deflater::_writeAndFlush, l being the state the loop was left
\* in: a sync flush with no input, unless the loop has made one.
FinalFlushNever(l) == l.w
FinalFlush(l) ==
    IF l.curMode # "SyncFlush"
    THEN _write("deflate", l.w, "SyncFlush", 0)
    ELSE l.w

\* Deflater::_writeAndFlush
_writeAndFlush(w) == FinalFlush(WriteLoop(w, "PartialFlush"))

\* Deflater::unflushedBytes
unflushedBytes(codec) == deflatePending(codec.z)

\* Deflater::Deflater / Inflater::Inflater
NewDeflater == [z |-> NewDeflateStream, checksum |-> NewChecksum]
NewInflater == [z |-> NewInflateStream, checksum |-> NewChecksum]

\* The end of Deflater::write, w being the state its switch left: the
\* consumed input is folded into the checksum (last, so a throw skips it).
DeflaterReturn(codec, input, w) ==
    [codec |-> [z |-> w.z,
                checksum |-> IF w.thrown = "None"
                             THEN addToChecksum(codec.checksum,
                                                Take(input, Len(input) - Len(w.input)))
                             ELSE codec.checksum],
     consumed |-> Len(input) - Len(w.input), out |-> w.out, thrown |-> w.thrown,
     steps |-> w.steps]

\* Deflater::write: what it leaves in the codec, how far it moved the two
\* slices, and the exception it threw.
Deflater_write(codec, input, outputSize, mode) ==
    LET w0 == WriteState(codec.z, input, outputSize)
    IN  CASE mode = "Raw" -> _writeRaw(codec, input, outputSize)
          [] mode = "NoFlush" ->
                DeflaterReturn(codec, input, _write("deflate", w0, mode, SIZE_MAX))
          [] mode = "SyncFlush" ->
                DeflaterReturn(codec, input, _writeAndFlush(w0))
          [] OTHER ->
                DeflaterReturn(codec, input, [w0 EXCEPT !.thrown = "InvalidParameter"])

\* The end of Inflater::write, w being the state after its _write: the bytes
\* produced are folded into the checksum.
InflaterReturn(codec, input, w) ==
    [codec |-> [z |-> w.z,
                checksum |-> IF w.thrown = "None"
                             THEN addToChecksum(codec.checksum, w.out)
                             ELSE codec.checksum],
     consumed |-> Len(input) - Len(w.input), out |-> w.out,
     thrown |-> w.thrown, steps |-> w.steps]

\* Inflater::write: one engine call.
Inflater_write(codec, input, outputSize, mode) ==
    IF mode = "Raw" THEN _writeRaw(codec, input, outputSize)
    ELSE InflaterReturn(codec, input,
                        _write("inflate", WriteState(codec.z, input, outputSize),
                               mode, SIZE_MAX))

\* ------------------------------------------------- the codec's callers
\* A plaintext of n bytes: one repeated byte, or two bytes alternating.
Pattern(p, n) == [i \in 1..n |-> IF p = "run" THEN 1 ELSE 1 + (i % 2)]
Plains == {Pattern(p, n) : p \in {"run", "mix"}, n \in {ShortLen, LongLen}}

NoWrite == [who |-> "none", mode |-> "Raw", inputSize |-> 0, outputSize |-> 0,
            consumed |-> 0, produced |-> 0, thrown |-> "None", steps |-> <<>>]
NoChecksumIO ==
    [written |-> <<>>, writtenOf |-> 0, op |-> "none", input |-> <<>>, outputSize |-> 0,
     consumed |-> 0, thrown |-> "None", message |-> "", before |-> 0, after |-> 0]
NoHist == [nWrites |-> 0, nReads |-> 0, raw |-> FALSE, threw |-> FALSE, flushed |-> FALSE]

\* No codec exists.
CodecIdle ==
    /\ plain = <<>>
    /\ sent = 0
    /\ deflater = NewDeflater
    /\ wire = <<>>
    /\ recv = 0
    /\ inflater = NewInflater
    /\ outPlain = <<>>
    /\ lastWrite = NoWrite
    /\ hist = NoHist
    /\ checksumIO = NoChecksumIO

\* ======================================================================
\* Opening a database: c4db_open, newDatabase, findOrCreateBundle, newDataFile.
\* ======================================================================
\* c4db_open calls in one behaviour.
MaxOpens == 3

kC4ForestDBStorageEngine == "ForestDB"
kC4SQLiteStorageEngine == "SQLite"
kForestDatabaseName == "db.forestdb"
kSQLiteDatabaseName == "db.sqlite3"

\* config.storageEngine values a caller passes: nullptr, the two engines, and
\* a name that is neither.
StorageEngines == {NULL, kC4SQLiteStorageEngine, kC4ForestDBStorageEngine, "LevelDB"}
\* The C4DatabaseConfig values a caller passes (flags kC4DB_Create and
\* kC4DB_Bundled, storageEngine).
Configs == [create : BOOLEAN, bundled : BOOLEAN, storageEngine : StorageEngines]
\* configP == nullptr
NoConfig == [create |-> FALSE, bundled |-> FALSE, storageEngine |-> "nullptr config"]

\* No directory at the bundle path.
NoBundle == [dir |-> FALSE, files |-> {}]

\* What findOrCreateBundle leaves and returns: the bundle on disk, the
\* exception thrown, the database file chosen, and config.storageEngine.
BundleResult(b, thrown, filename, storageEngine) ==
    [bundle |-> b, thrown |-> thrown, filename |-> filename,
     storageEngine |-> storageEngine]

\* bundle.mkdir(): makes the directory and returns true when nothing is at the
\* path; returns false when the directory is there already.
mkdirAlways(b) == TRUE
mkdir(b) == ~b.dir

\* The file of the requested storage engine, defaulting to SQLite.
BundleFilenameForest(engine) == kForestDatabaseName
BundleFilename(engine) ==
    IF engine = NULL \/ engine = kC4SQLiteStorageEngine
    THEN kSQLiteDatabaseName ELSE kForestDatabaseName

\* c4Database::findOrCreateBundle. mustExistAsDir() throws when the directory
\* is not there.
findOrCreateBundle(b, config) ==
    LET createdDir == config.create /\ mkdir(b)
        b1 == IF createdDir THEN [dir |-> TRUE, files |-> {}] ELSE b
        engine == config.storageEngine
        filename == BundleFilename(engine)
    IN  IF ~createdDir /\ ~b1.dir
        THEN BundleResult(b1, "NotFound", NULL, engine)
        ELSE IF engine \notin {NULL, kC4SQLiteStorageEngine, kC4ForestDBStorageEngine}
        THEN BundleResult(b1, "InvalidParameter", NULL, engine)
        ELSE IF createdDir \/ filename \in b1.files
        THEN BundleResult(b1, "None", filename,
                          IF engine = NULL THEN kC4SQLiteStorageEngine ELSE engine)
        ELSE IF engine # NULL
        THEN BundleResult(b1, "WrongFormat", NULL, engine)
        ELSE IF kForestDatabaseName \notin b1.files
        THEN BundleResult(b1, "WrongFormat", NULL, engine)
        ELSE BundleResult(b1, "None", kForestDatabaseName, kC4ForestDBStorageEngine)

\* c4Database::newDataFile: the DataFile class instantiated for
\* config.storageEngine, or the exception thrown.
newDataFile(storageEngine) ==
    IF storageEngine = NULL \/ storageEngine = kC4ForestDBStorageEngine
    THEN [backend |-> "ForestDataFile", thrown |-> "None"]
    ELSE IF storageEngine = kC4SQLiteStorageEngine
    THEN [backend |-> "SQLiteDataFile", thrown |-> "None"]
    ELSE [backend |-> NULL, thrown |-> "Unimplemented"]

\* The DataFile constructor on a file that exists or not: it opens the file,
\* creates it when options.create is set, and throws otherwise.
DataFileOpen(exists, create) == IF exists \/ create THEN "None" ELSE "CantOpenFile"

\* What c4db_open returns: the handle (its config.storageEngine, the class of
\* its DataFile and the file it is on) or nullptr, and the error recorded.
NoHandle == [storageEngine |-> NULL, backend |-> NULL, filename |-> NULL]
OpenResult(handle, err, b, flat) ==
    [handle |-> handle, ok |-> handle # NoHandle, err |-> err, bundle |-> b,
     flatFile |-> flat]

\* c4Database::newDatabase for a non-bundled config: the path is the file.
newDatabaseFlat(b, flat, config) ==
    LET df == newDataFile(config.storageEngine)
        opened == DataFileOpen(flat, config.create)
    IN  IF df.thrown # "None" THEN OpenResult(NoHandle, df.thrown, b, flat)
        ELSE IF opened # "None" THEN OpenResult(NoHandle, opened, b, flat)
        ELSE OpenResult([storageEngine |-> config.storageEngine,
                         backend |-> df.backend, filename |-> "flat"],
                        "None", b, TRUE)

\* The rest of c4Database::newDatabase for a bundled config, found being what
\* findOrCreateBundle returned.
newDatabaseInBundle(found, flat, config) ==
    LET df == newDataFile(found.storageEngine)
        opened == DataFileOpen(found.filename \in found.bundle.files, config.create)
    IN  IF found.thrown # "None" THEN OpenResult(NoHandle, found.thrown, found.bundle, flat)
        ELSE IF df.thrown # "None" THEN OpenResult(NoHandle, df.thrown, found.bundle, flat)
        ELSE IF opened # "None" THEN OpenResult(NoHandle, opened, found.bundle, flat)
        ELSE OpenResult([storageEngine |-> found.storageEngine,
                         backend |-> df.backend, filename |-> found.filename],
                        "None",
                        [found.bundle EXCEPT !.files = @ \cup {found.filename}],
                        flat)

\* c4Database::newDatabase
newDatabase(b, flat, config) ==
    IF config.bundled
    THEN newDatabaseInBundle(findOrCreateBundle(b, config), flat, config)
    ELSE newDatabaseFlat(b, flat, config)

\* c4db_open: checkParam(configP != nullptr), then newDatabase; an exception
\* becomes the error and a null handle.
c4db_open(b, flat, config) ==
    IF config = NoConfig THEN OpenResult(NoHandle, "InvalidParameter", b, flat)
    ELSE newDatabase(b, flat, config)

NoOpen == [config |-> NoConfig, handle |-> NoHandle, ok |-> FALSE, err |-> "None",
           before |-> NoBundle, called |-> FALSE]

\* No database is being opened.
OpenIdle ==
    /\ bundle = NoBundle
    /\ flatFile = FALSE
    /\ lastOpen = NoOpen
    /\ nOpens = 0

\* ------------------------------------------------------------------ Init
HandleInit ==
    /\ pc = [t \in Threads |-> "idle"]
    /\ call = [t \in Threads |-> "none"]
    /\ arg = [t \in Threads |-> NoArg]
    /\ ret = NoRet
    /\ transactionMutex = [owner |-> NoThread, count |-> 0]
    /\ mutex = NoThread
    /\ transactionLevel = 0
    /\ transaction = NoTransaction
    /\ nLiveTx = 0
    /\ store = EmptyStore
    /\ dfOpen = TRUE
    /\ dfDeleted = FALSE
    /\ dfOps = {}
    /\ refCount \in 1..(1 + MaxRefs)
    /\ crashed = FALSE
    /\ nCalls = 0
    /\ nOpen = [t \in Threads |-> 0]
    /\ scope = NoScope
    /\ last = NoLast

Init ==
    /\ HandleInit
    /\ CodecIdle
    /\ OpenIdle

\* ------------------------------------------------------------ API entry
EntryPc(c) ==
    CASE c \in {"begin", "rawput"} -> "begin"
      [] c = "end" -> "end"
      [] c = "isin" -> "isin"
      [] c = "purge" -> "purge"
      [] OTHER -> "op"

DataFileOps == {"close", "free", "delete", "compact", "rekey"}

\* The call of thread t returns.
Return(t, op, ok, err) ==
    /\ pc' = [pc EXCEPT ![t] = "idle"]
    /\ call' = [call EXCEPT ![t] = "none"]
    /\ arg' = [arg EXCEPT ![t] = NoArg]
    /\ ret' = [thread |-> t, op |-> op, ok |-> ok, err |-> err]

\* Thread t goes on to the next step of its call.
Goto(t, label) ==
    /\ pc' = [pc EXCEPT ![t] = label]
    /\ UNCHANGED <<call, arg, ret>>

\* A thread calls one of the API functions of the handle.
CallApi(t) ==
    /\ Running
    /\ pc[t] = "idle"
    /\ nCalls < MaxCalls
    /\ \E c \in {"begin", "end", "isin", "purge", "rawput"} \cup DataFileOps :
       \E commit \in BOOLEAN, key \in Keys, v \in PutValues :
          /\ (c # "end") => commit = FALSE
          /\ (c # "rawput") => v = <<NULL, NULL>>
          /\ call' = [call EXCEPT ![t] = c]
          /\ arg' = [arg EXCEPT ![t] = [commit |-> commit, key |-> key,
                                        meta |-> v[1], body |-> v[2], err |-> "None"]]
          /\ pc' = [pc EXCEPT ![t] = EntryPc(c)]
    /\ nCalls' = nCalls + 1
    /\ ret' = NoRet
    /\ last' = NoLast
    /\ UNCHANGED <<dbVars, nOpen, scope>>

\* ------------------------------------------------- beginTransaction
\* What c4db_beginTransaction's caller does once it has returned `ok`:
\* c4raw_put goes on to its write, or gives up.
AfterBegin(t, ok, err) ==
    IF call[t] = "rawput"
    THEN IF ok THEN Goto(t, "put_write") ELSE Return(t, "rawput", FALSE, err)
    ELSE Return(t, "begin", ok, err)

\* _transactionMutex.lock(); ++_transactionLevel
BeginLock(t) ==
    /\ Running
    /\ pc[t] = "begin"
    /\ TransactionMutexFree(t)
    /\ transactionMutex' = Locked(transactionMutex, t)
    /\ transactionLevel' = transactionLevel + 1
    /\ IF transactionLevel' = 1
       THEN /\ Goto(t, "begin_new")
            /\ scope' = [NoScope EXCEPT !.snap = store]
            /\ nOpen' = nOpen
       ELSE /\ AfterBegin(t, TRUE, "None")
            /\ nOpen' = [nOpen EXCEPT ![t] = @ + 1]
            /\ scope' = scope
    /\ UNCHANGED <<mutex, transaction, nLiveTx, store, dfOpen, dfDeleted, dfOps,
                   refCount, crashed, nCalls, last>>

\* WITH_LOCK(this); _transaction = new Transaction(_db.get());
\* the constructor throws when the file cannot start a transaction.
BeginNew(t) ==
    /\ Running
    /\ pc[t] = "begin_new"
    /\ MutexFree
    /\ \E ioFails \in BOOLEAN :
         IF dfOpen /\ ~ioFails
         THEN /\ transaction' = NewTransaction
              /\ nLiveTx' = nLiveTx + 1
              /\ AfterBegin(t, TRUE, "None")
         ELSE /\ UNCHANGED <<transaction, nLiveTx>>
              /\ AfterBegin(t, FALSE, "IOError")
    /\ nOpen' = [nOpen EXCEPT ![t] = @ + 1]
    /\ UNCHANGED <<transactionMutex, mutex, transactionLevel, store, dfOpen,
                   dfDeleted, dfOps, refCount, crashed, nCalls, scope, last>>

\* --------------------------------------------------- endTransaction
\* What c4db_endTransaction's caller does once it has returned `ok`:
\* c4raw_put returns its own commit flag.
AfterEnd(t, ok) ==
    IF call[t] = "rawput"
    THEN Return(t, "rawput", arg[t].commit, arg[t].err)
    ELSE Return(t, "end", ok, IF ok THEN "None" ELSE "NotInTransaction")

\* The history of an outermost begin..end pair, as its end leaves it: how the
\* Transaction ended, the commit flag passed, whether a nested end asked for an
\* abort or a c4raw_put failed, and what a reader should find in the store if
\* the writes of the pair were applied all (commit) or not at all (abort).
Ended(outcome, commit) ==
    [ended |-> TRUE, outcome |-> outcome, commit |-> commit,
     abortSeen |-> scope.abortSeen, failSeen |-> scope.failSeen,
     nWrites |-> Len(scope.log),
     expect |-> IF commit THEN ApplyLog(scope.snap, scope.log) ELSE scope.snap]

\* lock_guard on _transactionMutex; the level test and decrement; for a nested
\* level also the two unlocks.
EndGuard(t) ==
    /\ Running
    /\ pc[t] = "end"
    /\ TransactionMutexFree(t)
    /\ IF transactionLevel = 0
       THEN /\ AfterEnd(t, FALSE)
            /\ UNCHANGED <<transactionMutex, transactionLevel, nOpen, scope>>
       ELSE /\ transactionLevel' = transactionLevel - 1
            /\ scope' = [scope EXCEPT !.abortSeen = @ \/ ~arg[t].commit]
            /\ IF transactionLevel' = 0
               THEN /\ transactionMutex' = Locked(transactionMutex, t)
                    /\ Goto(t, "end_outer")
                    /\ nOpen' = nOpen
               ELSE /\ transactionMutex' = Unlocked(Locked(transactionMutex, t), 2)
                    /\ AfterEnd(t, TRUE)
                    /\ nOpen' = [nOpen EXCEPT ![t] = @ - 1]
    /\ UNCHANGED <<mutex, transaction, nLiveTx, store, dfOpen, dfDeleted, dfOps,
                   refCount, crashed, nCalls, last>>

\* WITH_LOCK(this); t = _transaction; _transaction = NULL;
\* if (!commit) t->abort(); delete t; then the two unlocks.
\* t->abort() through a null pointer is undefined: the process dies, or goes on.
EndOuter(t) ==
    /\ Running
    /\ pc[t] = "end_outer"
    /\ MutexFree
    /\ transaction' = NoTransaction
    /\ IF ~transaction.live
       THEN /\ UNCHANGED <<store, nLiveTx>>
            /\ IF arg[t].commit THEN crashed' = FALSE ELSE crashed' \in BOOLEAN
            /\ last' = Ended("none", arg[t].commit)
       ELSE /\ store' = TransactionDelete(AbortUnlessCommit(transaction, arg[t].commit))
            /\ nLiveTx' = nLiveTx - 1
            /\ crashed' = crashed
            /\ last' = Ended(IF AbortUnlessCommit(transaction, arg[t].commit).aborted
                             THEN "abort" ELSE "commit", arg[t].commit)
    /\ transactionMutex' = Unlocked(transactionMutex, 2)
    /\ IF crashed'
       THEN UNCHANGED <<pc, call, arg, ret, nOpen>>
       ELSE /\ AfterEnd(t, TRUE)
            /\ nOpen' = [nOpen EXCEPT ![t] = @ - 1]
    /\ scope' = NoScope
    /\ UNCHANGED <<mutex, transactionLevel, dfOpen, dfDeleted, dfOps, refCount,
                   nCalls>>

\* ------------------------------------------------- c4db_isInTransaction
\* WITH_LOCK(database)
IsInLock(t) ==
    /\ Running
    /\ pc[t] = "isin"
    /\ MutexFree
    /\ mutex' = t
    /\ Goto(t, "isin_tx")
    /\ UNCHANGED <<transactionMutex, transactionLevel, transaction, nLiveTx, store,
                   dfOpen, dfDeleted, dfOps, refCount, crashed, nCalls, nOpen,
                   scope, last>>

\* return database->inTransaction();  (lock_guard on _transactionMutex)
IsInRead(t) ==
    /\ Running
    /\ pc[t] = "isin_tx"
    /\ TransactionMutexFree(t)
    /\ mutex' = NoThread
    /\ Return(t, "isin", inTransaction, "None")
    /\ UNCHANGED <<transactionMutex, transactionLevel, transaction, nLiveTx, store,
                   dfOpen, dfDeleted, dfOps, refCount, crashed, nCalls, nOpen,
                   scope, last>>

\* ---------------------------------------------------------- c4db_purgeDoc
\* WITH_LOCK(database)
PurgeLock(t) ==
    /\ Running
    /\ pc[t] = "purge"
    /\ MutexFree
    /\ mutex' = t
    /\ Goto(t, "purge_tx")
    /\ UNCHANGED <<transactionMutex, transactionLevel, transaction, nLiveTx, store,
                   dfOpen, dfDeleted, dfOps, refCount, crashed, nCalls, nOpen,
                   scope, last>>

\* mustBeInTransaction, then defaultKeyStore().del(docID, transaction())
PurgeDo(t) ==
    /\ Running
    /\ pc[t] = "purge_tx"
    /\ TransactionMutexFree(t)
    /\ mutex' = NoThread
    /\ IF ~inTransaction
       THEN /\ Return(t, "purge", FALSE, "NotInTransaction")
            /\ UNCHANGED <<transaction, scope>>
       ELSE IF ~transaction.live \/ ~dfOpen
       THEN /\ Return(t, "purge", FALSE, "IOError")
            /\ UNCHANGED <<transaction, scope>>
       ELSE IF transaction.work[arg[t].key] = Absent
       THEN /\ Return(t, "purge", FALSE, "NotFound")
            /\ UNCHANGED <<transaction, scope>>
       ELSE /\ Return(t, "purge", TRUE, "None")
            /\ transaction' = [transaction EXCEPT
                                 !.work = KeyStoreDel(@, arg[t].key)]
            /\ scope' = [scope EXCEPT
                           !.log = Append(@, <<arg[t].key, NULL, NULL>>)]
    /\ UNCHANGED <<transactionMutex, transactionLevel, nLiveTx, store, dfOpen,
                   dfDeleted, dfOps, refCount, crashed, nCalls, nOpen, last>>

\* -------------------------------------------------------------- c4raw_put
\* The try block between c4db_beginTransaction and c4db_endTransaction:
\* WITH_LOCK; getKeyStore; transaction(); set or del; commit = true.
\* A throw (no Transaction, a closed file, an I/O error) leaves commit false.
PutWrite(t) ==
    /\ Running
    /\ pc[t] = "put_write"
    /\ MutexFree
    /\ pc' = [pc EXCEPT ![t] = "end"]
    /\ \E ioFails \in BOOLEAN :
         IF ~transaction.live \/ ~dfOpen \/ ioFails
         THEN /\ arg' = [arg EXCEPT ![t].commit = FALSE, ![t].err = "IOError"]
              /\ scope' = [scope EXCEPT !.failSeen = TRUE]
              /\ transaction' = transaction
         ELSE /\ arg' = [arg EXCEPT ![t].commit = TRUE]
              /\ transaction' = [transaction EXCEPT !.work =
                                   IF arg[t].body # NULL \/ arg[t].meta # NULL
                                   THEN KeyStoreSet(@, arg[t].key, arg[t].meta, arg[t].body)
                                   ELSE KeyStoreDel(@, arg[t].key)]
              /\ scope' = [scope EXCEPT !.log =
                              Append(@, <<arg[t].key, arg[t].meta, arg[t].body>>)]
    /\ UNCHANGED <<call, ret, transactionMutex, mutex, transactionLevel, nLiveTx,
                   store, dfOpen, dfDeleted, dfOps, refCount, crashed, nCalls,
                   nOpen, last>>

\* ------------------- c4db_close, c4db_free, c4db_delete, c4db_compact, c4db_rekey
\* if (!database->mustNotBeInTransaction(outError)) return false;
\* c4db_free passes a null outError, so it reports no error code.
OpCheck(t) ==
    /\ Running
    /\ pc[t] = "op"
    /\ TransactionMutexFree(t)
    /\ IF mustNotBeInTransaction
       THEN Goto(t, "op_do")
       ELSE Return(t, call[t], FALSE,
                   IF call[t] = "free" THEN "None" ELSE "TransactionNotClosed")
    /\ UNCHANGED <<dbVars, nCalls, nOpen, scope, last>>

\* c4db_delete: if (database->refCount() > 1) recordError(..., kC4ErrorBusy, ...)
DeleteError == IF refCount > 1 THEN "Busy" ELSE "None"

\* WITH_LOCK(database); try { the DataFile operation; return true; }
\* catchError(outError); return false;   (compacting or rekeying a file that
\* is not open throws)
OpDo(t) ==
    /\ Running
    /\ pc[t] = "op_do"
    /\ MutexFree
    /\ IF ~dfOpen /\ call[t] \in {"compact", "rekey"}
         THEN /\ Return(t, call[t], FALSE, "NotOpen")
              /\ UNCHANGED <<dfOpen, dfDeleted, dfOps, refCount>>
         ELSE /\ Return(t, call[t], TRUE,
                        IF call[t] = "delete" THEN DeleteError ELSE "None")
              /\ dfOps' = dfOps \cup {IF call[t] = "free" THEN "release" ELSE call[t]}
              /\ dfOpen' = IF call[t] \in {"close", "delete"} THEN FALSE ELSE dfOpen
              /\ dfDeleted' = (dfDeleted \/ call[t] = "delete")
              /\ refCount' = IF call[t] = "free" THEN refCount - 1 ELSE refCount
    /\ UNCHANGED <<transactionMutex, mutex, transactionLevel, transaction, nLiveTx,
                   store, crashed, nCalls, nOpen, scope, last>>

\* ------------------------------------------------------------------ Next
Next ==
    \/ \E t \in Threads : CallApi(t) /\ UNCHANGED <<codecVars, openVars>>
    \/ \E t \in Threads : BeginLock(t) /\ UNCHANGED <<codecVars, openVars>>
    \/ \E t \in Threads : BeginNew(t) /\ UNCHANGED <<codecVars, openVars>>
    \/ \E t \in Threads : EndGuard(t) /\ UNCHANGED <<codecVars, openVars>>
    \/ \E t \in Threads : EndOuter(t) /\ UNCHANGED <<codecVars, openVars>>
    \/ \E t \in Threads : IsInLock(t) /\ UNCHANGED <<codecVars, openVars>>
    \/ \E t \in Threads : IsInRead(t) /\ UNCHANGED <<codecVars, openVars>>
    \/ \E t \in Threads : PurgeLock(t) /\ UNCHANGED <<codecVars, openVars>>
    \/ \E t \in Threads : PurgeDo(t) /\ UNCHANGED <<codecVars, openVars>>
    \/ \E t \in Threads : PutWrite(t) /\ UNCHANGED <<codecVars, openVars>>
    \/ \E t \in Threads : OpCheck(t) /\ UNCHANGED <<codecVars, openVars>>
    \/ \E t \in Threads : OpDo(t) /\ UNCHANGED <<codecVars, openVars>>

Spec == Init /\ [][Next]_vars

\* ======================================================================
\* SpecLive: the same handle and threads, where a thread that can take the
\* next step of its call takes it, and a thread whose beginTransaction has
\* returned goes on to call the matching endTransaction.
\* ======================================================================
\* A step of the call thread t is in.
ThreadStep(t) ==
    /\ \/ BeginLock(t) \/ BeginNew(t) \/ EndGuard(t) \/ EndOuter(t)
       \/ IsInLock(t) \/ IsInRead(t) \/ PurgeLock(t) \/ PurgeDo(t)
       \/ PutWrite(t) \/ OpCheck(t) \/ OpDo(t)
    /\ UNCHANGED <<codecVars, openVars>>

\* Thread t calls the endTransaction that matches a beginTransaction of its own.
CallEnd(t) ==
    /\ nOpen[t] > 0
    /\ CallApi(t)
    /\ call'[t] = "end"
    /\ UNCHANGED <<codecVars, openVars>>

Fairness == \A t \in Threads : WF_vars(ThreadStep(t)) /\ WF_vars(CallEnd(t))

SpecLive == Init /\ [][Next]_vars /\ Fairness

\* ======================================================================
\* SpecCodec: a sender that feeds a plaintext through a Deflater, and a
\* receiver that feeds the bytes produced through an Inflater.
\* ======================================================================
InitCodec ==
    /\ HandleInit
    /\ refCount = 1
    /\ plain \in Plains
    /\ sent = 0
    /\ deflater = NewDeflater
    /\ wire = <<>>
    /\ recv = 0
    /\ inflater = NewInflater
    /\ outPlain = <<>>
    /\ lastWrite = NoWrite
    /\ hist = NoHist
    /\ checksumIO = NoChecksumIO
    /\ OpenIdle

\* The sizes of the input slices a caller passes when `avail` bytes are at hand.
InputSizes(avail) == {n \in {0, 1, ShortLen - 1, avail} : n <= avail}

\* What is recorded of a write call.
Written(who, mode, inputSize, outputSize, r) ==
    [who |-> who, mode |-> mode, inputSize |-> inputSize, outputSize |-> outputSize,
     consumed |-> r.consumed, produced |-> Len(r.out), thrown |-> r.thrown,
     steps |-> r.steps]

\* The sender calls Deflater::write on the next bytes of the plaintext, at
\* most maxWrites times, with an output of one of the sizes outputSizes.
DeflaterWriteWith(maxWrites, outputSizes) ==
    /\ hist.nWrites < maxWrites
    /\ \E n \in InputSizes(Len(plain) - sent), outputSize \in outputSizes, mode \in Modes :
         \E r \in {Deflater_write(deflater, SubSeq(plain, sent + 1, sent + n),
                                  outputSize, mode)} :
             /\ deflater' = r.codec
             /\ sent' = sent + r.consumed
             /\ wire' = wire \o r.out
             /\ lastWrite' = Written("Deflater", mode, n, outputSize, r)
             /\ hist' = [hist EXCEPT !.nWrites = @ + 1,
                                     !.raw = @ \/ mode = "Raw",
                                     !.threw = @ \/ r.thrown # "None",
                                     !.flushed = /\ mode = "SyncFlush"
                                                 /\ r.thrown = "None"
                                                 /\ r.consumed = n]
    /\ UNCHANGED <<plain, recv, inflater, outPlain, checksumIO, handleVars, openVars>>

DeflaterWrite == DeflaterWriteWith(MaxWrites, OutputSizes)

\* The receiver calls Inflater::write on the next bytes of the wire, at most
\* maxReads times, with an output of one of the sizes outputSizes.
InflaterWriteWith(maxReads, outputSizes) ==
    /\ hist.nReads < maxReads
    /\ \E n \in InputSizes(Len(wire) - recv), outputSize \in outputSizes,
          mode \in {"Raw", "NoFlush"} :
         \E r \in {Inflater_write(inflater, SubSeq(wire, recv + 1, recv + n),
                                  outputSize, mode)} :
             /\ inflater' = r.codec
             /\ recv' = recv + r.consumed
             /\ outPlain' = outPlain \o r.out
             /\ lastWrite' = Written("Inflater", mode, n, outputSize, r)
             /\ hist' = [hist EXCEPT !.nReads = @ + 1,
                                     !.raw = @ \/ mode = "Raw",
                                     !.threw = @ \/ r.thrown # "None"]
    /\ UNCHANGED <<plain, sent, deflater, wire, checksumIO, handleVars, openVars>>

InflaterWrite == InflaterWriteWith(MaxReads, {1, 2 * LongLen})

NextCodec ==
    \/ DeflaterWrite
    \/ InflaterWrite

SpecCodec == InitCodec /\ [][NextCodec]_vars

\* ======================================================================
\* SpecRetry: a sender that keeps calling Deflater::write(input, output,
\* SyncFlush) with the input not consumed yet and a fresh output buffer of
\* one fixed size, until the input is consumed or a call throws.
\* ======================================================================
\* Deflater::write calls of the sender.
MaxRetries == 16
\* Sizes of the output buffer the sender uses.
RetrySizes == OutputSizes \cup {kHeadroomForFlush + 1}

\* The sender calls Deflater::write once more.
Retry ==
    /\ hist.nWrites < MaxRetries
    /\ sent < Len(plain)
    /\ ~hist.threw
    /\ \E outputSize \in RetrySizes :
         /\ hist.nWrites > 0 => outputSize = lastWrite.outputSize
         /\ \E r \in {Deflater_write(deflater, Drop(plain, sent), outputSize,
                                     "SyncFlush")} :
              /\ deflater' = r.codec
              /\ sent' = sent + r.consumed
              /\ wire' = wire \o r.out
              /\ lastWrite' = Written("Deflater", "SyncFlush", Len(plain) - sent,
                                      outputSize, r)
              /\ hist' = [hist EXCEPT !.nWrites = @ + 1,
                                      !.threw = @ \/ r.thrown # "None",
                                      !.flushed = /\ r.thrown = "None"
                                                  /\ r.consumed = Len(plain) - sent]
    /\ UNCHANGED <<plain, recv, inflater, outPlain, checksumIO, handleVars, openVars>>

NextRetry == Retry

SpecRetry == InitCodec /\ [][NextRetry]_vars

\* ======================================================================
\* SpecChecksum: a sender and a receiver that exchange a short plaintext in
\* several writes each.
\* SpecFraming: a sender and a receiver that exchange a short plaintext and
\* frame it with writeChecksum / readAndVerifyChecksum.
\* ======================================================================
\* Deflater::write calls and Inflater::write calls of SpecChecksum.
MaxFramedWrites == 2
MaxFramedReads == 2
\* Deflater::write calls, and Inflater::write calls, of SpecFraming.
MaxFramingCalls == 1
\* Sizes of the output a caller passes to write and to writeChecksum.
FramedOutputSizes == {ShortLen, 2 * LongLen}
ChecksumRooms == {kChecksumSize - 1, kChecksumSize}

InitChecksum ==
    /\ InitCodec
    /\ Len(plain) = ShortLen

FramedDeflaterWrite == DeflaterWriteWith(MaxFramedWrites, FramedOutputSizes)
FramedInflaterWrite == InflaterWriteWith(MaxFramedReads, FramedOutputSizes)

\* The sender calls writeChecksum on its Deflater.
WriteChecksum ==
    /\ \E outputSize \in ChecksumRooms :
         \E r \in {writeChecksum(deflater, outputSize)} :
             /\ deflater' = r.codec
             /\ checksumIO' = [written |-> r.out, writtenOf |-> deflater.checksum,
                               op |-> "write", input |-> <<>>,
                               outputSize |-> outputSize, consumed |-> 0,
                               thrown |-> r.thrown, message |-> "",
                               before |-> deflater.checksum,
                               after |-> r.codec.checksum]
    /\ UNCHANGED <<plain, sent, wire, recv, inflater, outPlain, lastWrite, hist,
                   handleVars, openVars>>

\* A checksum frame with its last byte damaged in transit.
Corrupt(frame) == [frame EXCEPT ![kChecksumSize] = (@ + 1) % ByteModulus]

\* What a receiver may find where it expects the checksum: the frame the
\* sender emitted (all zero if it emitted none) or a damaged one, cut short
\* or followed by a byte of the next message.
ChecksumInputs ==
    LET frame == IF checksumIO.written = <<>> THEN enc32(0) ELSE checksumIO.written
    IN  {Take(f \o <<0>>, n) : f \in {frame, Corrupt(frame)},
                               n \in {kChecksumSize - 1, kChecksumSize, kChecksumSize + 1}}

\* The receiver calls readAndVerifyChecksum on its Inflater.
ReadAndVerifyChecksum ==
    /\ \E input \in ChecksumInputs :
         \E r \in {readAndVerifyChecksum(inflater, input)} :
             /\ inflater' = r.codec
             /\ checksumIO' = [checksumIO EXCEPT
                                 !.op = "read", !.input = input, !.outputSize = 0,
                                 !.consumed = r.consumed, !.thrown = r.thrown,
                                 !.message = r.message,
                                 !.before = inflater.checksum,
                                 !.after = r.codec.checksum]
    /\ UNCHANGED <<plain, sent, deflater, wire, recv, outPlain, lastWrite, hist,
                   handleVars, openVars>>

NextChecksum ==
    \/ FramedDeflaterWrite
    \/ FramedInflaterWrite

SpecChecksum == InitChecksum /\ [][NextChecksum]_vars

NextFraming ==
    \/ DeflaterWriteWith(MaxFramingCalls, FramedOutputSizes)
    \/ InflaterWriteWith(MaxFramingCalls, FramedOutputSizes)
    \/ WriteChecksum
    \/ ReadAndVerifyChecksum

SpecFraming == InitChecksum /\ [][NextFraming]_vars

\* ======================================================================
\* SpecOpen: callers that open the bundle path, and the path of a
\* non-bundled database, one c4db_open after the other.
\* ======================================================================
InitOpen ==
    /\ HandleInit
    /\ refCount = 1
    /\ CodecIdle
    /\ OpenIdle

\* A caller calls c4db_open.
Open ==
    /\ nOpens < MaxOpens
    /\ \E config \in Configs \cup {NoConfig} :
         \E r \in {c4db_open(bundle, flatFile, config)} :
             /\ bundle' = r.bundle
             /\ flatFile' = r.flatFile
             /\ lastOpen' = [config |-> config, handle |-> r.handle, ok |-> r.ok,
                             err |-> r.err, before |-> bundle, called |-> TRUE]
    /\ nOpens' = nOpens + 1
    /\ UNCHANGED <<handleVars, codecVars>>

NextOpen == Open

SpecOpen == InitOpen /\ [][NextOpen]_vars

\* ======================================================================
\* Claims about opening a database, checked under SpecOpen.
\* ======================================================================
KnownEngines == {NULL, "SQLite", "ForestDB"}
DatabaseFiles == {"db.sqlite3", "db.forestdb"}
\* The file a bundled open is expected to use for the engine it names.
ExpectedFile(engine) == IF engine = "ForestDB" THEN "db.forestdb" ELSE "db.sqlite3"
ExpectedEngine(engine) == IF engine = NULL THEN "SQLite" ELSE engine

\* C14: a bundled open succeeds with the stated file and engine when (a) the
\* create flag is set and the directory is absent (the directory is created,
\* the requested engine's file is used, SQLite when unspecified), (b) the
\* directory holds the requested (or default SQLite) file, (c) the engine is
\* unspecified and the directory holds db.forestdb but not db.sqlite3
\* (ForestDB). After a successful bundled open the directory holds exactly one
\* of db.sqlite3 and db.forestdb.
C14_BundleResolution ==
    (lastOpen.called /\ lastOpen.config.bundled
        /\ lastOpen.config.storageEngine \in KnownEngines) =>
        LET c == lastOpen.config
            b == lastOpen.before
            h == lastOpen.handle
        IN  /\ (c.create /\ ~b.dir) =>
                   /\ lastOpen.ok /\ bundle.dir
                   /\ h.filename = ExpectedFile(c.storageEngine)
                   /\ h.storageEngine = ExpectedEngine(c.storageEngine)
            /\ (b.dir /\ ExpectedFile(c.storageEngine) \in b.files) =>
                   /\ lastOpen.ok
                   /\ h.filename = ExpectedFile(c.storageEngine)
                   /\ h.storageEngine = ExpectedEngine(c.storageEngine)
            /\ (b.dir /\ c.storageEngine = NULL /\ "db.sqlite3" \notin b.files
                    /\ "db.forestdb" \in b.files) =>
                   /\ lastOpen.ok
                   /\ h.filename = "db.forestdb"
                   /\ h.storageEngine = "ForestDB"
            /\ lastOpen.ok => Cardinality(bundle.files \cap DatabaseFiles) = 1

\* C14's case: an open with the engine unspecified has fallen back to the
\* db.forestdb of an existing bundle.
C14_Witness ==
    /\ lastOpen.called /\ lastOpen.ok /\ lastOpen.config.bundled
    /\ lastOpen.config.storageEngine = NULL
    /\ lastOpen.before = [dir |-> TRUE, files |-> {"db.forestdb"}]
    /\ lastOpen.handle.filename = "db.forestdb"
    /\ lastOpen.handle.storageEngine = "ForestDB"

\* C15: a bundled open of a directory that exists fails with WrongFormat and
\* returns no handle when the explicitly requested engine's file is not in it,
\* or when the engine is unspecified and neither database file is in it, with
\* or without the create flag; it creates no database file.
C15_WrongFormat ==
    (/\ lastOpen.called /\ lastOpen.config.bundled /\ lastOpen.before.dir
     /\ \/ /\ lastOpen.config.storageEngine \in {"SQLite", "ForestDB"}
           /\ ExpectedFile(lastOpen.config.storageEngine) \notin lastOpen.before.files
        \/ /\ lastOpen.config.storageEngine = NULL
           /\ lastOpen.before.files \cap DatabaseFiles = {})
        => /\ ~lastOpen.ok /\ lastOpen.handle = NoHandle
           /\ lastOpen.err = "WrongFormat"
           /\ bundle = lastOpen.before

\* C15's case: with the create flag set, ForestDB was requested in a bundle
\* that holds db.sqlite3 only, and the open failed.
C15_Witness ==
    /\ lastOpen.called /\ ~lastOpen.ok /\ lastOpen.err = "WrongFormat"
    /\ lastOpen.config.bundled /\ lastOpen.config.create
    /\ lastOpen.config.storageEngine = "ForestDB"
    /\ lastOpen.before = [dir |-> TRUE, files |-> {"db.sqlite3"}]
    /\ bundle = lastOpen.before

\* C16: an open whose storageEngine is neither "SQLite" nor "ForestDB" (nor
\* unspecified) fails with InvalidParameter and returns a null handle, bundled
\* or not.
C16_UnknownEngineIsInvalidParameter ==
    (lastOpen.called /\ lastOpen.config # NoConfig
        /\ lastOpen.config.storageEngine \notin KnownEngines)
        => /\ ~lastOpen.ok /\ lastOpen.handle = NoHandle
           /\ lastOpen.err = "InvalidParameter"

\* C17: an open that leaves storageEngine unspecified instantiates the SQLite
\* backend, bundled or not, except in an existing bundle that holds
\* db.forestdb and no db.sqlite3, where it instantiates the ForestDB one.
C17_DefaultEngineIsSQLite ==
    (lastOpen.called /\ lastOpen.ok /\ lastOpen.config.storageEngine = NULL)
        => lastOpen.handle.backend =
              IF /\ lastOpen.config.bundled /\ lastOpen.before.dir
                 /\ "db.forestdb" \in lastOpen.before.files
                 /\ "db.sqlite3" \notin lastOpen.before.files
              THEN "ForestDataFile" ELSE "SQLiteDataFile"

\* ======================================================================
\* Claims about the database handle, checked under Spec.
\* ======================================================================
NOpenTotal == nOpen[1] + nOpen[2]

\* Thread t takes the step that performs (or fails) its DataFile operation.
OpDoStep(t) == pc[t] = "op_do" /\ pc'[t] = "idle"

\* Thread t takes the step that tests mustNotBeInTransaction.
OpCheckStep(t) == pc[t] = "op" /\ pc'[t] # "op"

\* C1: if any endTransaction of an outermost begin..end pair, at any nesting
\* level, was called with commit=false, the Transaction is aborted when the
\* outermost endTransaction is reached, also when that one passes commit=true.
C1_NestedAbortIsSticky ==
    (last.ended /\ last.outcome # "none" /\ last.abortSeen) => last.outcome = "abort"

\* C2: at most one Transaction object exists at any instant, and a
\* beginTransaction of a second thread does not return while the first thread
\* has not completed its outermost endTransaction.
C2_OneTransactionAtATime ==
    /\ nLiveTx <= 1
    /\ \A t1, t2 \in Threads : (nOpen[t1] > 0 /\ nOpen[t2] > 0) => t1 = t2

\* C2's case: thread 1 is inside a transaction that exists while thread 2 has
\* called beginTransaction and waits for the mutex.
C2_Witness ==
    /\ nOpen[1] > 0 /\ transaction.live /\ nLiveTx = 1
    /\ pc[2] = "begin" /\ nOpen[2] = 0

\* C3: c4db_delete on a handle that is not in a transaction fails with Busy and
\* leaves the file alone when the reference count is above 1; it deletes the
\* file and succeeds only when the count is exactly 1.
C3_DeleteNeedsLastReference ==
    [][\A t \in Threads :
         (OpDoStep(t) /\ call[t] = "delete" /\ dfOpen) =>
            IF refCount > 1
            THEN ~ret'.ok /\ ret'.err = "Busy" /\ ~dfDeleted' /\ dfOpen'
            ELSE ret'.ok /\ dfDeleted']_vars

\* C6: when a c4raw_put failed inside an outermost begin..end pair, the
\* outermost endTransaction(commit=true) aborts the Transaction.
C6_FailureAbortsCommit ==
    (last.ended /\ last.outcome # "none" /\ last.failSeen /\ last.commit)
        => last.outcome = "abort"

\* C7: the writes of an outermost begin..end pair are applied all or not at
\* all: after endTransaction(true) a reader finds every write of the pair
\* (a set reads back as its meta and body, a delete as not found), after
\* endTransaction(false) the store is what it was before the begin.
C7_AllOrNothing ==
    (last.ended /\ dfOpen) =>
        /\ store = last.expect
        /\ ~transaction.live =>
             \A k \in Keys :
                IF last.expect[k] = Absent
                THEN c4raw_get(k).err = "NotFound"
                ELSE c4raw_get(k).ok /\ c4raw_get(k).rec = last.expect[k]

\* C7's case: an outermost end has just committed two or more writes of its
\* pair, and a reader finds the record written last.
C7_Witness ==
    /\ last.ended /\ last.commit /\ last.outcome = "commit" /\ last.nWrites >= 2
    /\ dfOpen /\ store["a"] = <<"m", "1">>

\* C8: with the nesting level above zero, close, delete, compact and rekey fail
\* with TransactionNotClosed and free returns false; the DataFile operation is
\* not performed, and the level and the reference count stay as they were.
C8_RefusedInTransaction ==
    [][\A t \in Threads :
         (OpCheckStep(t) /\ transactionLevel > 0) =>
            /\ pc'[t] = "idle"
            /\ ret'.thread = t /\ ret'.op = call[t] /\ ~ret'.ok
            /\ ret'.err = IF call[t] = "free" THEN "None" ELSE "TransactionNotClosed"
            /\ UNCHANGED <<dfOpen, dfDeleted, dfOps, store, transactionLevel,
                           refCount, transaction>>]_vars

\* C8's case: a delete was just refused inside a transaction.
C8_Witness ==
    /\ ret.op = "delete" /\ ~ret.ok /\ ret.err = "TransactionNotClosed"
    /\ transactionLevel > 0 /\ dfOpen /\ ~dfDeleted

\* C9: rekey, compact, close and deleteDataFile never execute while a
\* Transaction is active on the handle.
C9_NoDataFileOpInTransaction ==
    [][\A t \in Threads :
         (OpDoStep(t) /\ call[t] \in {"rekey", "compact", "close", "delete"} /\ ret'.ok)
            => ~transaction.live]_vars

\* C10: isInTransaction is true exactly when more beginTransaction calls have
\* returned than endTransaction calls have returned true (no thread being in
\* the middle of an outermost begin or end).
C10_InTransactionIffOpen ==
    (\A t \in Threads : pc[t] \notin {"begin_new", "end_outer"})
        => (inTransaction <=> NOpenTotal > 0)

\* C10's case: a balanced sequence of begins and ends has just ended.
C10_Witness ==
    /\ ret.op = "end" /\ ret.ok /\ NOpenTotal = 0 /\ nCalls = 4 /\ ~inTransaction
    /\ last.ended

\* Thread t takes the step of endTransaction that tests the nesting level.
EndGuardStep(t) == pc[t] = "end" /\ call[t] = "end" /\ pc'[t] # "end"

\* Thread t takes the step of c4db_purgeDoc that tests mustBeInTransaction and
\* deletes the record.
PurgeDoStep(t) == pc[t] = "purge_tx" /\ pc'[t] = "idle"

\* C11: at nesting level zero endTransaction and purgeDoc fail with
\* NotInTransaction, the level stays zero, the transaction mutex is not left
\* held and no record is deleted; inside a transaction, purgeDoc of a key that
\* has no record fails with NotFound.
C11_RejectedOutsideTransaction ==
    [][\A t \in Threads :
         /\ ((EndGuardStep(t) \/ PurgeDoStep(t)) /\ transactionLevel = 0) =>
                /\ ~ret'.ok /\ ret'.err = "NotInTransaction" /\ ret'.thread = t
                /\ transactionLevel' = 0
                /\ transactionMutex'.owner # t
                /\ UNCHANGED <<store, transaction>>
         /\ (PurgeDoStep(t) /\ transactionLevel > 0
                /\ (IF transaction.live THEN transaction.work ELSE store)[arg[t].key]
                      = Absent) =>
                ~ret'.ok /\ ret'.err = "NotFound"]_vars

\* Thread t takes the step of beginTransaction that creates the Transaction,
\* and its call reports failure.
BeginFailsStep(t) == pc[t] = "begin_new" /\ pc'[t] = "idle" /\ ~ret'.ok

\* C22: after any sequence of beginTransaction / endTransaction calls, also
\* when a beginTransaction failed because the Transaction could not be
\* created, a Transaction exists exactly when isInTransaction is true, the
\* transaction mutex is held as many times as the nesting level, and every
\* Transaction created is ended once; a beginTransaction that fails leaves the
\* level and the mutex as they were before the call.
C22_TransactionMatchesLevel ==
    /\ []((\A t \in Threads : pc[t] \notin {"begin_new", "end_outer"}) =>
            /\ transaction.live <=> inTransaction
            /\ transactionMutex.count = transactionLevel
            /\ nLiveTx = IF transaction.live THEN 1 ELSE 0)
    /\ [][\A t \in Threads :
            BeginFailsStep(t) =>
               /\ transactionLevel' = transactionLevel - 1
               /\ transactionMutex' = Unlocked(transactionMutex, 1)]_vars

\* The other thread's beginTransaction has returned and it cannot call the
\* matching end: it has used up the calls of the behaviour.
CannotEnd(t) ==
    \E u \in Threads \ {t} :
        pc[u] = "idle" /\ transactionMutex.owner = u /\ nCalls = MaxCalls

\* Thread t is inside one of the calls of the claim.
InCall(t) ==
    pc[t] # "idle" /\ call[t] \in {"begin", "end", "isin", "purge", "rawput"}

\* C18: no interleaving of two threads on the handle deadlocks: if every thread
\* that begins a transaction goes on to call the matching end, every call of
\* beginTransaction, endTransaction, isInTransaction, purgeDoc and c4raw_put
\* eventually returns.
C18_EveryCallReturns ==
    \A t \in Threads :
        InCall(t) ~> (pc[t] = "idle" \/ ~Running \/ CannotEnd(t))

\* ======================================================================
\* ======================================================================
\* Claims about the codec, checked under SpecCodec and SpecRetry.
\* ======================================================================
\* C4: whenever Deflater::write(input, output, SyncFlush) returns without
\* throwing, for any input and any non-empty output buffer, the compressor
\* holds no produced-but-unemitted bytes: unflushedBytes() is zero.
C4_SyncFlushLeavesNothingUnflushed ==
    (lastWrite.who = "Deflater" /\ lastWrite.mode = "SyncFlush"
        /\ lastWrite.thrown = "None")
        => unflushedBytes(deflater) = 0

\* C5: when a plaintext was fed through the Deflater by compressing writes
\* that all returned, the last one a sync flush that consumed the rest of its
\* input, and the Inflater has decoded every byte the Deflater produced, then
\* the Inflater's output is that plaintext and the two checksums are equal.
C5_RoundTrip ==
    (/\ hist.flushed /\ ~hist.raw /\ ~hist.threw
     /\ recv = Len(wire) /\ inflater.z.st # "copy")
        => /\ outPlain = Take(plain, sent)
           /\ inflater.checksum = deflater.checksum
\* The Deflater::write call performed last was a SyncFlush one.
SyncFlushWritten == lastWrite.who = "Deflater" /\ lastWrite.mode = "SyncFlush"

\* The engine calls of the write performed last, in order.
EngineCalls == SelectSeq(lastWrite.steps, LAMBDA step : step.result # "none")

\* C19: in every step of a SyncFlush write that limits its input (the input
\* left is not guaranteed to fit: the loop's PartialFlush call), the input
\* offered to the engine is at most |output| - 12 (nothing, when the output is
\* smaller than that), and so never more than the room left in the output,
\* for every output size from 1 up.
C19_OfferedInputFitsOutput ==
    SyncFlushWritten =>
        \A i \in 1..Len(lastWrite.steps) :
            LET step == lastWrite.steps[i]
            IN  step.mode = "PartialFlush" =>
                   /\ step.inSize <= (IF step.outSize >= 12 THEN step.outSize - 12 ELSE 0)
                   /\ step.inSize <= step.outSize

\* C20: within a SyncFlush write that returns, every engine call after a
\* SyncFlush one is a SyncFlush one, the last engine call is a SyncFlush one,
\* and the final SyncFlush call with no input is made exactly when the loop
\* made no SyncFlush call (also when the input is empty).
C20_EndsWithSyncFlush ==
    (SyncFlushWritten /\ lastWrite.thrown = "None") =>
        LET calls == EngineCalls
            n == Len(calls)
            loopSynced == \E i \in 1..n : calls[i].mode = "SyncFlush"
                                            /\ calls[i].maxInput # 0
        IN  /\ n >= 1
            /\ calls[n].mode = "SyncFlush"
            /\ \A i, j \in 1..n :
                   (i < j /\ calls[i].mode = "SyncFlush") => calls[j].mode = "SyncFlush"
            /\ (calls[n].maxInput = 0 /\ calls[n].inSize = 0) <=> ~loopSynced

\* C20's case: the loop of a SyncFlush write made a PartialFlush call and no
\* SyncFlush call, and the write ended with the final flush.
C20_Witness ==
    /\ SyncFlushWritten /\ lastWrite.thrown = "None"
    /\ Len(lastWrite.steps) >= 2
    /\ lastWrite.steps[1].mode = "PartialFlush" /\ lastWrite.steps[1].consumed > 100
    /\ lastWrite.steps[Len(lastWrite.steps)].mode = "SyncFlush"
    /\ lastWrite.steps[Len(lastWrite.steps)].maxInput = 0

\* C21: a sender that keeps calling Deflater::write(input, output, SyncFlush)
\* with the input left and a fresh output of one fixed size of 1 byte or more
\* gets its input consumed in the end: every call returns, and every call with
\* input to consume consumes at least one byte of it. (Checked under SpecRetry.)
C21_EveryCallConsumes ==
    (SyncFlushWritten /\ lastWrite.inputSize > 0) =>
        /\ lastWrite.thrown = "None"
        /\ lastWrite.consumed >= 1

\* ======================================================================
\* Claims about the checksum, checked under SpecChecksum and SpecFraming.
\* ======================================================================
\* C12: after any sequence of write calls that all returned (Raw, NoFlush and
\* SyncFlush mixed) the Deflater's checksum is the CRC32, from zero, of the
\* input bytes it consumed, in order, and the Inflater's checksum that of the
\* bytes it produced (in Raw mode: copied), in order.
C12_ChecksumOfBytesInOrder ==
    ~hist.threw =>
        /\ deflater.checksum = crc32(0, Take(plain, sent))
        /\ inflater.checksum = crc32(0, outPlain)

\* C12's case: two Deflater writes, one of them Raw, and two Inflater writes
\* have returned, and both codecs have folded bytes.
C12_Witness ==
    /\ ~hist.threw /\ hist.raw
    /\ hist.nWrites = 2 /\ hist.nReads = 2
    /\ sent = ShortLen /\ Len(outPlain) > 2
    /\ lastWrite.who = "Inflater" /\ lastWrite.mode = "NoFlush" /\ lastWrite.produced > 0
    /\ deflater.checksum # 0 /\ inflater.checksum # 0

\* C13: readAndVerifyChecksum fails with CorruptData "ends before checksum",
\* consuming nothing, on fewer than 4 bytes; fails with CorruptData "invalid
\* checksum" when the 4 big-endian bytes differ from the codec's checksum;
\* otherwise consumes exactly 4 bytes. The bytes writeChecksum emitted are
\* accepted exactly by a codec whose checksum equals the emitter's. Neither
\* operation changes the checksum.
C13_ChecksumFraming ==
    /\ checksumIO.op # "none" => checksumIO.after = checksumIO.before
    /\ (checksumIO.op = "write" /\ checksumIO.thrown = "None") =>
            Len(checksumIO.written) = kChecksumSize
    /\ checksumIO.op = "read" =>
         LET input == checksumIO.input
             value == checksumIO.before
             bigEndian == <<value \div 16777216, (value \div 65536) % 256,
                            (value \div 256) % 256, value % 256>>
         IN  /\ Len(input) < 4 =>
                    /\ checksumIO.thrown = "CorruptData"
                    /\ checksumIO.message = "BLIP message ends before checksum"
                    /\ checksumIO.consumed = 0
             /\ (Len(input) >= 4 /\ Take(input, 4) # bigEndian) =>
                    /\ checksumIO.thrown = "CorruptData"
                    /\ checksumIO.message = "BLIP message invalid checksum"
             /\ (Len(input) >= 4 /\ Take(input, 4) = bigEndian) =>
                    /\ checksumIO.thrown = "None"
                    /\ checksumIO.consumed = 4
             /\ (Len(input) >= 4 /\ checksumIO.written # <<>>
                    /\ Take(input, 4) = checksumIO.written) =>
                    (checksumIO.thrown = "None" <=> value = checksumIO.writtenOf)

\* C13's case: after a round trip the receiver has accepted the 4 bytes the
\* sender emitted for a non-zero checksum.
C13_Witness ==
    /\ checksumIO.op = "read" /\ checksumIO.thrown = "None" /\ checksumIO.consumed = 4
    /\ checksumIO.written # <<>> /\ Take(checksumIO.input, 4) = checksumIO.written
    /\ checksumIO.before = checksumIO.writtenOf /\ checksumIO.before > 255
    /\ hist.nReads > 0 /\ outPlain # <<>>
====
